---- MODULE Spec2Model ----
(***************************************************************************)
(* Model of the log correlation and statistics engine of                   *)
(* skipper_cloud_watch: the aggregator (parse_logs) of cloudwatch.py and   *)
(* cloud_watch_timing.py, the correlator / classifier (get_log_stats), the *)
(* message decoder (_parse_message, _parse_formatted_message), the tenant  *)
(* extractor (extract_hotel_code_from_log) and ingest of cloudwatch.py and *)
(* skipper_cloud_watch_parser.py, and the batch pipeline of main.py.       *)
(***************************************************************************)
EXTENDS Integers, Sequences, FiniteSets, TLC

VARIABLES
    module,       \* which source file's parse_logs / get_log_stats runs
    services,     \* parse_logs: dict service name -> Service
    hotel_codes,  \* parse_logs: dict hotel code -> Service (lazily created)
    row,          \* parse_logs: file[i], the row folded last
    i,            \* parse_logs: number of rows folded so far
    logs,         \* get_log_stats: the input list of Log
    log_dict,     \* get_log_stats: request_uuid -> list of Log
    keys,         \* get_log_stats: insertion order of the keys of log_dict
    log_stats,    \* get_log_stats: list of emitted LogStats
    pc,           \* get_log_stats: position of the function
    n,            \* get_log_stats: index of the next log / trace
    locals,       \* get_log_stats: service and api_type after the last trace
    arg,          \* a function called on its own: the argument
    ret,          \* a function called on its own: what it returned or raised
    source,       \* ingest: index of the source of the for loop
    first,        \* ingest: first
    next_token,   \* ingest: next_token
    sleep_time,   \* ingest: sleep_time, in tenths of a second
    lines,        \* ingest: the raw lines of the responses received so far
    log_event,    \* ingest: log_event, the loop variable of the event loop
    day,          \* create_logs: the batch index of  for day in range(...)
    futures,      \* create_logs: the submitted ingest calls, in submission order
    start_date,   \* create_logs: start_date, in minutes after datetime.now()
    end_date,     \* create_logs: end_date
    minutes,      \* create_logs: the counter of the submission loop
    start,        \* create_logs: start, the first half of the file names
    end,          \* create_logs: end, the second half of the file names
    files         \* the files written to ./basic_logs and ./full_logs

vars == <<module, services, hotel_codes, row, i, logs, log_dict, keys, log_stats, pc, n,
          locals, arg, ret, source, first, next_token, sleep_time, lines, log_event,
          day, futures, start_date, end_date, minutes, start, end, files>>

aggVars == <<services, hotel_codes, row, i>>
statVars == <<logs, log_dict, keys, log_stats, pc, n, locals>>
callVars == <<arg, ret>>
ingVars == <<source, first, next_token, sleep_time, lines, log_event>>
batchVars == <<day, futures, start_date, end_date, minutes, start, end, files>>

(***************************************************************************)
(* Bounds                                                                  *)
(***************************************************************************)
MaxRows == 2
MaxLogs == 2

None == "None"

(***************************************************************************)
(* Floating-point latencies.  A float is kept exactly as a pair            *)
(* <<microseconds, picoseconds>> (value = us * 1e-6 + ps * 1e-12), which   *)
(* represents 1e-6 and 1.000001e-6 without rounding.                       *)
(***************************************************************************)
LatencyTokens == {"0", "1e-06", "1.000001e-06", "0.42"}

\* float(file[i][4]): parse the text of the latency column
Float(s) ==
    CASE s = "0"            -> [us |-> 0, ps |-> 0]
      [] s = "1e-06"        -> [us |-> 1, ps |-> 0]
      [] s = "1.000001e-06" -> [us |-> 1, ps |-> 1]
      [] s = "0.42"         -> [us |-> 420000, ps |-> 0]
      [] s = "2.0"          -> [us |-> 2000000, ps |-> 0]
      [] s = "4.5"          -> [us |-> 4500000, ps |-> 0]
      [] s = "3.0"          -> [us |-> 3000000, ps |-> 0]

\* the literal 0.000001 of the validity test
Epsilon == [us |-> 1, ps |-> 0]

Gt(a, b) == a.us > b.us \/ (a.us = b.us /\ a.ps > b.ps)

Ge(a, b) == a.us > b.us \/ (a.us = b.us /\ a.ps >= b.ps)

\* faulty variant of IsValid: the comparison is not strict
IsValidNonStrict(s) == Ge(Float(s), Epsilon)

\* float(file[i][4]) > 0.000001
IsValid(s) == Gt(Float(s), Epsilon)

(***************************************************************************)
(* The aggregator: parse_logs                                              *)
(***************************************************************************)
Modules == {"cloudwatch", "cloud_watch_timing"}

\* the keys of the services dict
ServiceNames(m) ==
    IF m = "cloudwatch" THEN {"windsurfer", "sabre", "oracle"}
    ELSE {"windsurfer", "sabre"}

\* the EndPoint fields of the Service dataclass
EndPointNames(m) ==
    {"rate_calendar", "availability", "room_details", "addons", "package",
     "room_rate", "make_reservation", "get_reservation", "cancel_reservation",
     "modify_reservation"} \cup (IF m = "cloudwatch" THEN {"get_pricing_info"} ELSE {})

\* the case labels of the match statement and the EndPoint each one updates
OpTable(m) ==
    [op \in {"GetRateCalendar", "GetAvailability", "GetRoomDetails", "GetAddons",
             "GetPackage", "GetRoomRate", "MakeReservation", "GetReservation",
             "CancelReservation", "ModifyReservation"}
            \cup (IF m = "cloudwatch" THEN {"GetPricingInfo"} ELSE {}) |->
        CASE op = "GetRateCalendar"   -> "rate_calendar"
          [] op = "GetAvailability"   -> "availability"
          [] op = "GetRoomDetails"    -> "room_details"
          [] op = "GetAddons"         -> "addons"
          [] op = "GetPackage"        -> "package"
          [] op = "GetRoomRate"       -> "room_rate"
          [] op = "MakeReservation"   -> "make_reservation"
          [] op = "GetReservation"    -> "get_reservation"
          [] op = "CancelReservation" -> "cancel_reservation"
          [] op = "ModifyReservation" -> "modify_reservation"
          [] op = "GetPricingInfo"    -> "get_pricing_info"]

\* the case labels whose validity test has an else branch
HasElse(op) == op # "GetPricingInfo"

\* EndPoint(name=...)
EndPoint == [count |-> 0, errors |-> 0, latency |-> <<>>]

\* Service(name=..., rate_calendar=EndPoint(...), ...)
Service(m, name) ==
    [name |-> name, count |-> 0, errors |-> 0, latency |-> <<>>,
     ep |-> [e \in EndPointNames(m) |-> EndPoint]]

\* the rows of the csv files of ./full_logs (columns 1..4)
ServiceColumn == {"", "windsurfer", "oracle", "concierge"}
OperationColumn == {"GetAvailability", "GetPricingInfo", "CreateConfig"}
HotelCodeColumn == {"USAMEBCK", "0"}

Rows ==
    [hotel_code : HotelCodeColumn, service : ServiceColumn,
     api_type : OperationColumn, latency : LatencyTokens]

NoRow == [hotel_code |-> None, service |-> None, api_type |-> None, latency |-> None]

\* faulty variant of FoldEndPoint: an error is counted on the EndPoint alone
FoldEndPointLocalErrors(s, e, r, withElse) ==
    LET s1 == [s EXCEPT !.ep[e].count = @ + 1] IN
    IF IsValid(r.latency)
    THEN [s1 EXCEPT !.latency = Append(@, Float(r.latency)),
                    !.ep[e].latency = Append(@, Float(r.latency))]
    ELSE IF withElse
         THEN [s1 EXCEPT !.ep[e].errors = @ + 1]
         ELSE s1

\* the body of a case: count, then latency sample or error
FoldEndPoint(s, e, r, withElse) ==
    LET s1 == [s EXCEPT !.ep[e].count = @ + 1] IN
    IF IsValid(r.latency)
    THEN [s1 EXCEPT !.latency = Append(@, Float(r.latency)),
                    !.ep[e].latency = Append(@, Float(r.latency))]
    ELSE IF withElse
         THEN [s1 EXCEPT !.errors = @ + 1, !.ep[e].errors = @ + 1]
         ELSE s1

\* faulty variant of FoldService: an operation without a case falls into a bucket
FoldServiceDefaultCase(m, s, r) ==
    LET s1 == [s EXCEPT !.count = @ + 1] IN
    IF r.api_type \in DOMAIN OpTable(m)
    THEN FoldEndPoint(s1, OpTable(m)[r.api_type], r, HasElse(r.api_type))
    ELSE FoldEndPoint(s1, "rate_calendar", r, TRUE)

\* service.count += 1 followed by the match statement
FoldService(m, s, r) ==
    LET s1 == [s EXCEPT !.count = @ + 1] IN
    IF r.api_type \in DOMAIN OpTable(m)
    THEN FoldEndPoint(s1, OpTable(m)[r.api_type], r, HasElse(r.api_type))
    ELSE s1

\* faulty variant of WithHotelCode: a new entry starts with a count of one
WithHotelCodeCounted(m, hc, r) ==
    IF r.hotel_code \in DOMAIN hc THEN hc
    ELSE [h \in DOMAIN hc \cup {r.hotel_code} |->
            IF h = r.hotel_code THEN [Service(m, r.service) EXCEPT !.count = 1]
            ELSE hc[h]]

\* if hotel_code not in hotel_codes: hotel_codes[hotel_code] = Service(name=service.name, ...)
WithHotelCode(m, hc, r) ==
    IF r.hotel_code \in DOMAIN hc THEN hc
    ELSE [h \in DOMAIN hc \cup {r.hotel_code} |->
            IF h = r.hotel_code THEN Service(m, r.service) ELSE hc[h]]

\* faulty variant of Skipped: only the empty service is skipped
SkippedOnlyEmpty(m, r) == r.service = ""

\* if file[i][2] not in services or not file[i][2]: continue
Skipped(m, r) == r.service \notin ServiceNames(m) \/ r.service = ""

\* one iteration of  for i in range(1, len(file))
Fold(r) ==
    /\ i < MaxRows
    /\ i' = i + 1
    /\ row' = r
    /\ IF Skipped(module, r)
       THEN UNCHANGED <<services, hotel_codes>>
       ELSE /\ services' = [services EXCEPT ![r.service] = FoldService(module, @, r)]
            /\ hotel_codes' =
                 LET hc == WithHotelCode(module, hotel_codes, r) IN
                 [hc EXCEPT ![r.hotel_code] = FoldService(module, @, r)]
    /\ UNCHANGED <<batchVars, module, callVars, ingVars, statVars>>

(***************************************************************************)
(* Text.  A text is a sequence of words; `x in text` of the source is the  *)
(* occurrence of the word x, and the braces of an embedded object literal  *)
(* are words of their own.                                                 *)
(***************************************************************************)
Contains(text, word) == \E k \in 1..Len(text) : text[k] = word

\* str(x) of a float
Str(x) ==
    CASE x = [us |-> 0, ps |-> 0]       -> "0.0"
      [] x = [us |-> 420000, ps |-> 0]  -> "0.42"
      [] x = [us |-> 2000000, ps |-> 0] -> "2.0"
      [] x = [us |-> 4500000, ps |-> 0] -> "4.5"
      [] x = [us |-> 3000000, ps |-> 0] -> "3.0"

(***************************************************************************)
(* extract_hotel_code_from_log                                             *)
(***************************************************************************)
\* the for loop over the characters: brace_counter c, start_index s;
\* 0 stands for an index that is still None
RECURSIVE ScanBraces(_, _, _, _)
ScanBraces(message, k, c, s) ==
    IF k > Len(message) THEN [start_index |-> s, end_index |-> 0]
    ELSE IF message[k] = "{"
         THEN ScanBraces(message, k + 1, c + 1, IF c = 0 THEN k ELSE s)
    ELSE IF message[k] = "}"
         THEN IF c - 1 = 0 THEN [start_index |-> s, end_index |-> k]
              ELSE ScanBraces(message, k + 1, c - 1, s)
    ELSE ScanBraces(message, k + 1, c, s)

\* index of the brace closing the one opened before position k at depth d
RECURSIVE MatchClose(_, _, _)
MatchClose(content, k, d) ==
    IF k > Len(content) THEN 0
    ELSE IF content[k] = "{" THEN MatchClose(content, k + 1, d + 1)
    ELSE IF content[k] = "}"
         THEN IF d = 1 THEN k ELSE MatchClose(content, k + 1, d - 1)
    ELSE MatchClose(content, k + 1, d)

\* last index of the value that starts at k
ValueEnd(content, k) ==
    IF content[k] = "{" THEN MatchClose(content, k + 1, 1) ELSE k

\* ast.literal_eval accepts the dict whose entries start at k: keys are
\* atoms and every key has a value
RECURSIVE WellFormed(_, _)
WellFormed(content, k) ==
    IF k > Len(content) THEN FALSE
    ELSE IF content[k] = "}" THEN TRUE
    ELSE IF content[k] = "{" THEN FALSE
    ELSE IF k + 1 > Len(content) \/ content[k + 1] = "}" THEN FALSE
    ELSE /\ content[k + 1] = "{" => WellFormed(content, k + 2)
         /\ ValueEnd(content, k + 1) # 0
         /\ WellFormed(content, ValueEnd(content, k + 1) + 1)

\* d.get(key, None) for the dict whose entries start at k: the index of the
\* value, 0 when the key is absent
RECURSIVE DictGet(_, _, _)
DictGet(content, k, key) ==
    IF content[k] = "}" THEN 0
    ELSE IF content[k] = key THEN k + 1
    ELSE DictGet(content, ValueEnd(content, k + 1) + 1, key)

Raise == [raised |-> TRUE, value |-> None]
Return(v) == [raised |-> FALSE, value |-> v]

\* hotel['imsHotelId'] for the value at index h
ImsHotelId(content, h) ==
    IF content[h] # "{" THEN Raise
    ELSE LET v == DictGet(content, h + 1, "imsHotelId") IN
         IF v = 0 THEN Raise ELSE Return(content[v])

\* d['hotel']['imsHotelId'] for the value at index d
HotelOf(content, d) ==
    IF content[d] # "{" THEN Raise
    ELSE LET h == DictGet(content, d + 1, "hotel") IN
         IF h = 0 THEN Raise ELSE ImsHotelId(content, h)

\* faulty variant of extract_hotel_code_from_log: availabilityRequest is looked up first
extract_hotel_code_availability_first(message) ==
    LET span == ScanBraces(message, 1, 0, 0) IN
    IF span.start_index = 0 \/ span.end_index = 0 THEN Raise
    ELSE LET content == SubSeq(message, span.start_index, span.end_index) IN
         IF ~WellFormed(content, 2) THEN Raise
         ELSE LET hotel == DictGet(content, 2, "hotel")
                  availRequest == DictGet(content, 2, "availabilityRequest")
                  reservation == DictGet(content, 2, "reservationDetails") IN
              IF availRequest # 0 THEN HotelOf(content, availRequest)
              ELSE IF hotel # 0 THEN ImsHotelId(content, hotel)
              ELSE IF reservation # 0 THEN HotelOf(content, reservation)
              ELSE Return(None)

extract_hotel_code_from_log(message) ==
    LET span == ScanBraces(message, 1, 0, 0) IN
    IF span.start_index = 0 \/ span.end_index = 0 THEN Raise
    ELSE LET content == SubSeq(message, span.start_index, span.end_index) IN
         IF ~WellFormed(content, 2) THEN Raise
         ELSE LET hotel == DictGet(content, 2, "hotel")
                  availRequest == DictGet(content, 2, "availabilityRequest")
                  reservation == DictGet(content, 2, "reservationDetails") IN
              IF hotel # 0 THEN ImsHotelId(content, hotel)
              ELSE IF availRequest # 0 THEN HotelOf(content, availRequest)
              ELSE IF reservation # 0 THEN HotelOf(content, reservation)
              ELSE Return(None)

(***************************************************************************)
(* The correlator and classifier: get_log_stats                            *)
(***************************************************************************)
StatsModules == {"cloudwatch", "skipper_cloud_watch_parser"}

\* self.services of CloudwatchLog, in list order
KnownServices == <<"windsurfer", "sabre", "oracle">>

\* the for loop of _parse_formatted_message (cloudwatch.py): the first
\* service of the list that occurs in calling_function, None otherwise
RECURSIVE FirstService(_, _)
FirstService(calling_function, k) ==
    IF k > Len(KnownServices) THEN None
    ELSE IF Contains(calling_function, KnownServices[k]) THEN KnownServices[k]
    ELSE FirstService(calling_function, k + 1)

\* json_message.get("request_uuid", json_message.get("requestUuid", None))
RequestUuid(json_message) ==
    IF json_message.request_uuid # None THEN json_message.request_uuid
    ELSE json_message.requestUuid

\* Log(...) built by _parse_message / _parse_formatted_message of cloudwatch.py
\* from the json payload of one event; an empty calling_function stands for None
Log(t, json_message) ==
    [time |-> t,
     request_uuid |-> RequestUuid(json_message),
     service |-> IF json_message.calling_function = <<>> THEN None
                 ELSE FirstService(json_message.calling_function, 1),
     function |-> json_message.calling_function,
     message_type |-> IF json_message.level = None THEN "UNDEFINED"
                      ELSE json_message.level,
     stats |-> json_message.stats,
     message |-> json_message.message]

Json(uuid, legacyUuid, fn, stats, message) ==
    [request_uuid |-> uuid, requestUuid |-> legacyUuid, calling_function |-> fn,
     level |-> "INFO", stats |-> stats, message |-> message]

GrpcAvailability ==
    <<"GRPC Request", "{", "availabilityRequest", "{", "hotel", "{",
      "imsHotelId", "USAMEBCK", "}", "}", "}">>

GrpcUnbalanced == <<"GRPC Request", "{", "hotel", "{", "imsHotelId", "USAMEBCK", "}">>

Time20 == [us |-> 2000000, ps |-> 0]
Time45 == [us |-> 4500000, ps |-> 0]
Count3 == [us |-> 3000000, ps |-> 0]

\* the payloads of the json log lines, without the correlation id
Payloads ==
    { [fn |-> <<"concierge", "windsurfer", "GetAvailability">>, stats |-> {}, message |-> <<"request">>],
      [fn |-> <<"sabre", "adapter", "GetRoomRate">>, stats |-> {}, message |-> <<"request">>],
      [fn |-> <<"GetAvailability", "GetRoomRate">>, stats |-> {}, message |-> <<"request">>],
      [fn |-> <<>>, stats |-> {}, message |-> GrpcAvailability],
      [fn |-> <<>>, stats |-> {}, message |-> GrpcUnbalanced],
      [fn |-> <<>>, stats |-> {<<"time", Time20>>}, message |-> <<"response">>],
      [fn |-> <<>>, stats |-> {<<"time", Time45>>}, message |-> <<"response">>],
      [fn |-> <<>>, stats |-> {<<"count", Count3>>}, message |-> <<"response">>] }

Times == {1, 5}

\* the Log objects that ingest of cloudwatch.py can hand to get_log_stats
CloudwatchLogs ==
    { Log(t, Json("A", None, p.fn, p.stats, p.message)) : t \in Times, p \in Payloads }
    \cup { Log(t, Json(None, "B", p.fn, p.stats, p.message)) : t \in Times, p \in Payloads }
    \cup { Log(1, Json(None, None, <<"windsurfer">>, {}, <<"request">>)),
           Log(1, Json("", None, <<"windsurfer">>, {}, <<"request">>)) }

\* the Log objects of skipper_cloud_watch_parser.py: request_uuid is req_id
\* ("" when the literal has neither key), service the text before the first
\* hyphen, message the text after the object literal
SkipperLog(t, uuid, service, message) ==
    [time |-> t, request_uuid |-> uuid, service |-> service, function |-> <<>>,
     message_type |-> "DEBUG", stats |-> {}, message |-> message]

SkipperLogs ==
    { SkipperLog(t, u, sv, m) :
        t \in {1}, u \in {"A", ""},
        sv \in {<<"windsurfer", "GetAvailability">>, <<"sabre", "GetRoomRate">>,
                <<"concierge">>},
        m \in {<<"Took", "0.42s">>, <<"request">>, GrpcAvailability} }

LogsOf(m) == IF m = "cloudwatch" THEN CloudwatchLogs ELSE SkipperLogs

\* create_logs is not running
NoBatch ==
    /\ day = 0
    /\ futures = <<>>
    /\ start_date = 0
    /\ end_date = 0
    /\ minutes = 0
    /\ start = 0
    /\ end = 0
    /\ files = <<>>

\* no function is called on its own
NoCall == arg = None /\ ret = None

\* log_event before the first iteration of the event loop
NoEvent == [timestamp |-> 0, message |-> <<>>]

\* ingest is not running
NoIngest ==
    /\ source = 0
    /\ first = FALSE
    /\ next_token = None
    /\ sleep_time = 0
    /\ lines = <<>>
    /\ log_event = NoEvent

\* service and api_type before the first trace is classified
Unbound == [service |-> None, api_type |-> None]

\* a log is appended to the list that get_log_stats will receive
Arrive(log) ==
    /\ pc = "input"
    /\ Len(logs) < MaxLogs
    /\ logs' = Append(logs, log)
    /\ UNCHANGED <<batchVars, module, callVars, ingVars, aggVars, log_dict, keys, log_stats, pc, n, locals>>

\* get_log_stats(logs) is called
Call ==
    /\ pc = "input"
    /\ pc' = "group"
    /\ n' = 0
    /\ UNCHANGED <<batchVars, module, callVars, ingVars, aggVars, logs, log_dict, keys, log_stats, locals>>

\* faulty variant of Truthy: only a missing id is falsy
TruthyNotNone(uuid) == uuid # None

\* if log.formatted_message.request_uuid:
Truthy(uuid) == uuid # None /\ uuid # ""

\* the test that guards the append of the first loop
Grouped(m, log) == IF m = "cloudwatch" THEN Truthy(log.request_uuid) ELSE TRUE

\* faulty variant of DictAppend: the trace is kept newest first
DictPrepend(d, k, v) ==
    IF k \in DOMAIN d THEN [d EXCEPT ![k] = <<v>> \o @]
    ELSE [x \in DOMAIN d \cup {k} |-> IF x = k THEN <<v>> ELSE d[x]]

\* log_dict[k].append(v) on a defaultdict(list)
DictAppend(d, k, v) ==
    IF k \in DOMAIN d THEN [d EXCEPT ![k] = Append(@, v)]
    ELSE [x \in DOMAIN d \cup {k} |-> IF x = k THEN <<v>> ELSE d[x]]

\* one iteration of  for log in logs
Group ==
    /\ pc = "group"
    /\ n < Len(logs)
    /\ n' = n + 1
    /\ LET log == logs[n + 1] IN
       IF Grouped(module, log)
       THEN /\ log_dict' = DictAppend(log_dict, log.request_uuid, log)
            /\ keys' = IF log.request_uuid \in DOMAIN log_dict THEN keys
                       ELSE Append(keys, log.request_uuid)
       ELSE UNCHANGED <<log_dict, keys>>
    /\ UNCHANGED <<batchVars, module, callVars, ingVars, aggVars, logs, log_stats, pc, locals>>

\* the first loop is exhausted
EndGroup ==
    /\ pc = "group"
    /\ n = Len(logs)
    /\ pc' = "classify"
    /\ n' = 0
    /\ UNCHANGED <<batchVars, module, callVars, ingVars, aggVars, logs, log_dict, keys, log_stats, locals>>

\* faulty variant of StatsTime: any field of the block is taken for the time
StatsTimeAnyField(stats) == Str((CHOOSE p \in stats : TRUE)[2])

\* stats.get("time", "0") and str() of the result
StatsTime(stats) ==
    IF \E p \in stats : p[1] = "time"
    THEN Str((CHOOSE p \in stats : p[1] = "time")[2])
    ELSE "0"

\* faulty variant of NextLatency: the stats block is never read
NextLatencyIgnoresStats(latency, log) == latency

\* stats = message.get("stats", {}); if stats: latency = str(stats.get("time", "0"))
NextLatency(latency, log) ==
    IF log.stats # {} THEN StatsTime(log.stats) ELSE latency

\* faulty variant of NextHotelCode: None does not replace an extracted id
NextHotelCodeKeeps(hotel_code, value) == IF value = None THEN hotel_code ELSE value

\* hotel_code = extract_hotel_code_from_log(...): the result replaces the
\* value found so far, whatever it is
NextHotelCode(hotel_code, value) == value

\* the first inner loop of cloudwatch.py: latency and hotel_code of the trace;
\* an exception of extract_hotel_code_from_log leaves the loop and the function
RECURSIVE ScanTrace(_, _, _, _)
ScanTrace(log_list, k, latency, hotel_code) ==
    IF k > Len(log_list)
    THEN [raised |-> FALSE, latency |-> latency, hotel_code |-> hotel_code]
    ELSE LET log == log_list[k]
             lat == NextLatency(latency, log) IN
         IF Contains(log.message, "GRPC Request")
         THEN LET r == extract_hotel_code_from_log(log.message) IN
              IF r.raised
              THEN [raised |-> TRUE, latency |-> lat, hotel_code |-> hotel_code]
              ELSE ScanTrace(log_list, k + 1, lat, NextHotelCode(hotel_code, r.value))
         ELSE ScanTrace(log_list, k + 1, lat, hotel_code)

\* downstream_messages.append((log.time, service, message_type, function))
DownstreamMessages(log_list) ==
    [k \in 1..Len(log_list) |->
        <<log_list[k].time, log_list[k].service, log_list[k].message_type,
          log_list[k].function>>]

\* the operation names in the order of the if statements
ApiNames ==
    <<"GetRateCalendar", "GetAvailability", "GetRoomDetails", "GetAddons",
      "GetPackage", "GetRoomRate", "MakeReservation", "GetReservation",
      "CancelReservation", "ModifyReservation", "CreateConfig", "ReadConfig",
      "UpdateConfig", "DeleteConfig", "ListAllConfigs", "GetPricingInfo">>

\* a run of  if name in text: x = name  statements: every match overwrites x
RECURSIVE IfChain(_, _, _, _)
IfChain(names, text, k, x) ==
    IF k > Len(names) THEN x
    ELSE IfChain(names, text, k + 1, IF Contains(text, names[k]) THEN names[k] ELSE x)

\* the second inner loop of cloudwatch.py: service and api_type of the trace
RECURSIVE Resolve(_, _, _, _)
Resolve(downstream_messages, k, service, api_type) ==
    IF k > Len(downstream_messages) \/ (service # "" /\ api_type # "")
    THEN [service |-> service, api_type |-> api_type]
    ELSE LET service_ == downstream_messages[k][2]
             function_ == downstream_messages[k][4]
             s1 == IF service = "" /\ service_ # None /\ service_ # ""
                   THEN IfChain(KnownServices, <<service_>>, 1, service)
                   ELSE service
             a1 == IF api_type = "" /\ function_ # <<>>
                   THEN IfChain(ApiNames, function_, 1, api_type)
                   ELSE api_type IN
         Resolve(downstream_messages, k + 1, s1, a1)

\* the body of  for request_uuid, log_list in log_dict.items()  in cloudwatch.py
ClassifyTrace(request_uuid, log_list) ==
    LET scan == ScanTrace(log_list, 1, "0", "0")
        downstream_messages == DownstreamMessages(log_list)
        res == Resolve(downstream_messages, 1, "", "") IN
    [raised |-> scan.raised,
     dropped |-> FALSE,
     service |-> res.service,
     api_type |-> res.api_type,
     log_stat |-> [request_uuid |-> request_uuid,
                   initial_time |-> downstream_messages[1][1],
                   service |-> res.service,
                   downstream_messages |-> downstream_messages,
                   end_to_end_latency |-> scan.latency,
                   api_type |-> res.api_type,
                   hotel_code |-> scan.hotel_code]]

\* the first inner loop of skipper_cloud_watch_parser.py raises: IndexError of
\* extract_time_from_log (no second word) or an exception of
\* extract_hotel_code_from_log
RECURSIVE SkipperScanRaises(_, _)
SkipperScanRaises(log_list, k) ==
    IF k > Len(log_list) THEN FALSE
    ELSE LET message == log_list[k].message IN
         \/ Contains(message, "Took") /\ Len(message) < 2
         \/ Contains(message, "GRPC Request") /\ extract_hotel_code_from_log(message).raised
         \/ SkipperScanRaises(log_list, k + 1)

\* the operation names in the order of the if statements of
\* skipper_cloud_watch_parser.py
SkipperApiNames == SubSeq(ApiNames, 1, 15)

\* the second inner loop of skipper_cloud_watch_parser.py: no test guards the
\* if statements and nothing leaves the loop early
RECURSIVE SkipperResolve(_, _, _, _)
SkipperResolve(downstream_messages, k, service, api_type) ==
    IF k > Len(downstream_messages)
    THEN [service |-> service, api_type |-> api_type]
    ELSE LET service_ == downstream_messages[k][2] IN
         SkipperResolve(downstream_messages, k + 1,
                        IfChain(KnownServices, service_, 1, service),
                        IfChain(SkipperApiNames, service_, 1, api_type))

\* the body of the loop in skipper_cloud_watch_parser.py: LogStats has no field
\* initial_time, the TypeError of LogStats(initial_time=...) is swallowed by the
\* bare except and no record is appended
SkipperClassifyTrace(request_uuid, log_list) ==
    LET res == SkipperResolve(DownstreamMessages(log_list), 1, "", "") IN
    [raised |-> SkipperScanRaises(log_list, 1), dropped |-> TRUE,
     service |-> res.service, api_type |-> res.api_type, log_stat |-> None]

\* one iteration of  for request_uuid, log_list in log_dict.items()
Classify ==
    /\ pc = "classify"
    /\ n < Len(keys)
    /\ LET request_uuid == keys[n + 1]
           r == IF module = "cloudwatch"
                THEN ClassifyTrace(request_uuid, log_dict[request_uuid])
                ELSE SkipperClassifyTrace(request_uuid, log_dict[request_uuid]) IN
       IF r.raised
       THEN /\ pc' = "raised"
            /\ UNCHANGED <<n, log_stats, locals>>
       ELSE /\ n' = n + 1
            /\ locals' = [service |-> r.service, api_type |-> r.api_type]
            /\ log_stats' = IF r.dropped THEN log_stats ELSE Append(log_stats, r.log_stat)
            /\ pc' = pc
    /\ UNCHANGED <<batchVars, module, callVars, ingVars, aggVars, logs, log_dict, keys>>

\* return log_stats
ReturnStats ==
    /\ pc = "classify"
    /\ n = Len(keys)
    /\ pc' = "done"
    /\ UNCHANGED <<batchVars, module, callVars, ingVars, aggVars, logs, log_dict, keys, log_stats, n, locals>>

InitStats ==
    /\ module \in StatsModules
    /\ NoBatch
    /\ services = <<>>
    /\ hotel_codes = <<>>
    /\ row = NoRow
    /\ i = 0
    /\ logs = <<>>
    /\ log_dict = <<>>
    /\ keys = <<>>
    /\ log_stats = <<>>
    /\ pc = "input"
    /\ n = 0
    /\ locals = Unbound
    /\ NoCall
    /\ NoIngest

NextStats ==
    \/ \E log \in LogsOf(module) : Arrive(log)
    \/ Call
    \/ Group
    \/ EndGroup
    \/ Classify
    \/ ReturnStats

SpecStats == InitStats /\ [][NextStats]_vars

InitAgg ==
    /\ module \in Modules
    /\ NoBatch
    /\ services = [s \in ServiceNames(module) |-> Service(module, s)]
    /\ hotel_codes = <<>>
    /\ row = NoRow
    /\ i = 0
    /\ logs = <<>>
    /\ log_dict = <<>>
    /\ keys = <<>>
    /\ log_stats = <<>>
    /\ pc = "idle"
    /\ n = 0
    /\ locals = Unbound
    /\ NoCall
    /\ NoIngest

NextAgg == \E r \in Rows : Fold(r)

SpecAgg == InitAgg /\ [][NextAgg]_vars

(***************************************************************************)
(* extract_hotel_code_from_log called on messages with one or two object   *)
(* literals.  A message is described by what its first literal holds under *)
(* each of the three keys.                                                 *)
(***************************************************************************)
\* what a key of the literal holds: nothing (the key is absent), a hotel
\* object with an imsHotelId, or an object without one
Holds == {"absent", "id", "other"}

HotelObject(h, id) ==
    IF h = "id" THEN <<"{", "imsHotelId", id, "}">> ELSE <<"{", "name", "N", "}">>

\* 'hotel': {...}
HotelEntry(h, id) ==
    IF h = "absent" THEN <<>> ELSE <<"hotel">> \o HotelObject(h, id)

\* key: {'hotel': {...}}
NestedEntry(key, h, id) ==
    IF h = "absent" THEN <<>>
    ELSE <<key, "{">> \o (IF h = "id" THEN HotelEntry(h, id) ELSE <<"name", "N">>) \o <<"}">>

\* the text of the message described by the record a
MessageOf(a) ==
    LET e1 == HotelEntry(a.hotel, "H1")
        e2 == NestedEntry("availabilityRequest", a.availabilityRequest, "H2")
        e3 == NestedEntry("reservationDetails", a.reservationDetails, "H3") IN
    (IF a.grpc THEN <<"GRPC Request">> ELSE <<"text">>)
    \o <<"{", "requestId", "7">>
    \o (IF a.reversed THEN e3 \o e2 \o e1 ELSE e1 \o e2 \o e3)
    \o (IF a.closed THEN <<"}">> ELSE <<>>)
    \o (IF a.second THEN <<"{", "hotel", "{", "imsHotelId", "H9", "}", "}">> ELSE <<>>)

ExtractArgs ==
    [hotel : Holds, availabilityRequest : Holds, reservationDetails : Holds,
     grpc : BOOLEAN, reversed : BOOLEAN, closed : BOOLEAN, second : BOOLEAN]

\* the call  extract_hotel_code_from_log(message)
ExtractCall ==
    /\ pc = "call"
    /\ ret' = extract_hotel_code_from_log(MessageOf(arg))
    /\ pc' = "returned"
    /\ UNCHANGED <<batchVars, module, arg, ingVars, aggVars, logs, log_dict, keys, log_stats, n, locals>>

InitExtract ==
    /\ module \in StatsModules
    /\ NoBatch
    /\ services = <<>>
    /\ hotel_codes = <<>>
    /\ row = NoRow
    /\ i = 0
    /\ logs = <<>>
    /\ log_dict = <<>>
    /\ keys = <<>>
    /\ log_stats = <<>>
    /\ pc = "call"
    /\ n = 0
    /\ locals = Unbound
    /\ arg \in ExtractArgs
    /\ ret = None
    /\ NoIngest

NextExtract == ExtractCall

SpecExtract == InitExtract /\ [][NextExtract]_vars

(***************************************************************************)
(* _parse_formatted_message of skipper_cloud_watch_parser.py: the payload  *)
(* extractor of the pipe-delimited variant, called on the third segment.   *)
(***************************************************************************)
MaxWords == 4

\* the index k at which the first loop stops: the first hyphen, the last
\* index when there is none
RECURSIVE FirstHyphen(_, _)
FirstHyphen(message, k) ==
    IF k >= Len(message) \/ message[k] = "-" THEN k
    ELSE FirstHyphen(message, k + 1)

\* service = "".join(service_lst): the text before the first hyphen
ServiceLabel(message) ==
    LET k == FirstHyphen(message, 1) IN
    IF message[k] = "-" THEN SubSeq(message, 1, k - 1) ELSE message

\* expr[key] of a dict literal without nested values: the last entry with
\* that key, None when there is none
FlatGet(text, key) ==
    LET Ks == {j \in 2..(Len(text) - 1) : j % 2 = 0 /\ text[j] = key} IN
    IF Ks = {} THEN None
    ELSE text[(CHOOSE j \in Ks : \A j2 \in Ks : j2 <= j) + 1]

\* req_id after the two tests on 'request_uuid' and 'requestUuid'
ReqId(text) ==
    IF FlatGet(text, "requestUuid") # None THEN FlatGet(text, "requestUuid")
    ELSE IF FlatGet(text, "request_uuid") # None THEN FlatGet(text, "request_uuid")
    ELSE ""

FormattedMessage(request_uuid, service, message) ==
    [raised |-> FALSE, request_uuid |-> request_uuid, service |-> service,
     message |-> message]

RaiseInvalid ==
    [raised |-> TRUE, request_uuid |-> None, service |-> <<>>, message |-> <<>>]

\* the second loop, at index k with len(stack) = depth and request_uuid = text.
\* ast.literal_eval is called at every closing brace on the text collected so
\* far: it raises while a brace is still open, and the else branch raises
\* when the value is not a dict
RECURSIVE ScanLiteral(_, _, _, _)
ScanLiteral(message, k, depth, text) ==
    IF k > Len(message) THEN FormattedMessage("", ServiceLabel(message), <<>>)
    ELSE IF depth = 0 /\ message[k] # "{" THEN ScanLiteral(message, k + 1, depth, text)
    ELSE IF message[k] = "{" THEN ScanLiteral(message, k + 1, depth + 1, Append(text, "{"))
    ELSE IF message[k] = "}"
         THEN LET expr == Append(text, "}") IN
              IF depth - 1 = 0 /\ WellFormed(expr, 2)
              THEN FormattedMessage(ReqId(expr), ServiceLabel(message),
                                    SubSeq(message, k + 1, Len(message)))
              ELSE RaiseInvalid
    ELSE ScanLiteral(message, k + 1, depth, Append(text, message[k]))

\* _parse_formatted_message(message); on the empty text k is unbound and
\* range(k, ...) raises
ParseFormattedMessage(message) ==
    IF message = <<>> THEN RaiseInvalid
    ELSE ScanLiteral(message, FirstHyphen(message, 1), 0, <<>>)

ParseAlphabet == {"-", "{", "}", "request_uuid", "A"}

RECURSIVE Texts(_, _)
Texts(alphabet, len) ==
    IF len = 0 THEN {<<>>}
    ELSE LET shorter == Texts(alphabet, len - 1) IN
         shorter \cup {Append(t, w) : t \in {x \in shorter : Len(x) = len - 1}, w \in alphabet}

\* the tail of  label - {'request_uuid': 'A', 'x': {'y': 1}} Took 0.42s
NestedTail ==
    <<"windsurfer", "-", "{", "request_uuid", "A", "x", "{", "y", "1", "}", "}",
      "Took", "0.42s">>

\* the third segments of the lines
Tails ==
    Texts(ParseAlphabet, MaxWords)
    \cup { NestedTail,
           <<"windsurfer", "-", "{", "request_uuid", "A", "}", "Took", "0.42s">>,
           <<"windsurfer", "-", "{", "request_uuid", "A", "requestUuid", "B", "}", "request">>,
           <<"windsurfer", "-", "{", "x", "{", "request_uuid", "A", "}", "}", "request">>,
           <<"windsurfer", "-", "{", "request_uuid", "A", "x", "{", "y", "1", "}", "request">>,
           <<"windsurfer", "-", "Took", "0.42s">> }

\* the call  self._parse_formatted_message(slices[2].strip())
ParseCall ==
    /\ pc = "call"
    /\ ret' = ParseFormattedMessage(arg)
    /\ pc' = "returned"
    /\ UNCHANGED <<batchVars, module, arg, ingVars, aggVars, logs, log_dict, keys, log_stats, n, locals>>

InitParse ==
    /\ module = "skipper_cloud_watch_parser"
    /\ NoBatch
    /\ services = <<>>
    /\ hotel_codes = <<>>
    /\ row = NoRow
    /\ i = 0
    /\ logs = <<>>
    /\ log_dict = <<>>
    /\ keys = <<>>
    /\ log_stats = <<>>
    /\ pc = "call"
    /\ n = 0
    /\ locals = Unbound
    /\ arg \in Tails
    /\ ret = None
    /\ NoIngest

NextParse == ParseCall

SpecParse == InitParse /\ [][NextParse]_vars

(***************************************************************************)
(* The message decoder (_parse_message) and ingest.  A log event of the    *)
(* log service is a record with a timestamp in milliseconds and a message; *)
(* a json message is the word sequence of its object, braces included.     *)
(***************************************************************************)
MaxLines == 3
MaxPages == 2
MaxRetries == 2

\* the members of the MessageType enum
MessageType(m) ==
    IF m = "cloudwatch"
    THEN {"UNDEFINED", "DEBUG", "INFO", "WARNING", "ERROR", "EXCEPTION", "CRITICAL"}
    ELSE {"DEBUG", "ERROR"}

NoLog == [raised |-> TRUE, log |-> None]

\* json.loads(message) gives a dict
IsJsonObject(message) ==
    /\ Len(message) >= 2
    /\ message[1] = "{"
    /\ MatchClose(message, 2, 1) = Len(message)
    /\ WellFormed(message, 2)

\* json_message.get(key, None)
JsonGet(message, key) ==
    LET v == DictGet(message, 2, key) IN
    IF v = 0 THEN None ELSE message[v]

\* the dict that json.loads(message) returns
JsonLoads(message) ==
    [request_uuid |-> JsonGet(message, "request_uuid"),
     requestUuid |-> JsonGet(message, "requestUuid"),
     calling_function |-> IF JsonGet(message, "calling_function") = None THEN <<>>
                          ELSE <<JsonGet(message, "calling_function")>>,
     level |-> JsonGet(message, "level"),
     stats |-> {},
     message |-> IF JsonGet(message, "message") = None THEN <<>>
                 ELSE <<JsonGet(message, "message")>>]

\* datetime.utcfromtimestamp(log_event["timestamp"] / 1000), in seconds
UtcFromTimestamp(timestamp) == timestamp \div 1000

\* _parse_message of cloudwatch.py: json.loads raises on a text that is not
\* json, .get raises on a value that is not an object, MessageType(...) raises
\* on a level that is not a member of the enum
CloudwatchParseMessage(event) ==
    IF ~IsJsonObject(event.message) THEN NoLog
    ELSE LET json_message == JsonLoads(event.message) IN
         IF json_message.level # None /\ json_message.level \notin MessageType("cloudwatch")
         THEN NoLog
         ELSE [raised |-> FALSE,
               log |-> Log(UtcFromTimestamp(event.timestamp), json_message)]

\* the indices of the delimiters of message.split("|")
Bars(message) == {j \in 1..Len(message) : message[j] = "|"}

\* _parse_message of skipper_cloud_watch_parser.py: fewer than three slices
\* raise, _parse_formatted_message may raise, MessageType(slices[1].strip())
\* raises on a text that is not a member of the enum
SkipperParseMessage(event) ==
    LET message == event.message
        bars == Bars(message)
        b1 == CHOOSE j \in bars : \A j2 \in bars : j <= j2
        b2 == CHOOSE j \in bars \ {b1} : \A j2 \in bars \ {b1} : j <= j2 IN
    IF Cardinality(bars) < 2 THEN NoLog
    ELSE LET formatted_message ==
                 ParseFormattedMessage(SubSeq(message, b2 + 1, Len(message)))
             severity == SubSeq(message, b1 + 1, b2 - 1) IN
         IF formatted_message.raised THEN NoLog
         ELSE IF Len(severity) # 1 \/ severity[1] \notin MessageType("skipper_cloud_watch_parser")
         THEN NoLog
         ELSE [raised |-> FALSE,
               log |-> [SkipperLog(UtcFromTimestamp(event.timestamp),
                                   formatted_message.request_uuid,
                                   formatted_message.service,
                                   formatted_message.message)
                          EXCEPT !.message_type = severity[1]]]

\* self._parse_message(log_event, source)
ParseMessage(m, event) ==
    IF m = "cloudwatch" THEN CloudwatchParseMessage(event)
    ELSE SkipperParseMessage(event)

\* the access line of the load balancer health check
HealthCheck == "\"GET / HTTP/1.1\" 200"

\* '"GET / HTTP/1.1" 200' in log_event.get('message')
IsNoise(event) == Contains(event.message, HealthCheck)

LogEvent(message) == [timestamp |-> 1000, message |-> message]

\* the events of the log groups read by cloudwatch.py
CloudwatchEvents ==
    { LogEvent(<<"{", "level", "INFO", "request_uuid", "A", "calling_function",
                 "windsurfer", "message", "request", "}">>),
      LogEvent(<<"{", "requestUuid", "B", "message", "response", "}">>),
      LogEvent(<<"{", "level", "TRACE", "request_uuid", "A", "message", "request", "}">>),
      LogEvent(<<"{", "level", "INFO", "request_uuid", "A">>),
      LogEvent(<<"10.0.0.1", HealthCheck>>) }

\* the events of the log groups read by skipper_cloud_watch_parser.py
SkipperEvents ==
    { LogEvent(<<"api", "|", "DEBUG", "|", "windsurfer", "-", "{", "request_uuid", "A",
                 "}", "Took", "0.42s">>),
      LogEvent(<<"api", "|", "ERROR", "|", "sabre", "-", "{", "requestUuid", "B", "}",
                 "request">>),
      LogEvent(<<"api", "|", "INFO", "|", "sabre", "-", "{", "request_uuid", "A", "}",
                 "request">>),
      LogEvent(<<"api", "|", "DEBUG">>),
      LogEvent(<<"10.0.0.1", HealthCheck>>) }

EventsOf(m) == IF m = "cloudwatch" THEN CloudwatchEvents ELSE SkipperEvents

\* the sources argument of ingest
Sources == <<"group-1", "group-2">>

\* the nextToken of the response that precedes page k of a source
Tokens == <<"token-1", "token-2", "token-3", "token-4">>

\* faulty variant of IngestEvents: a line that fails to decode ends the loop
IngestEventsBreak(m, events, k, acc) ==
    LET Decodes(e) == ~IsNoise(e) /\ ~ParseMessage(m, e).raised
        Fails == {j \in 1..Len(events) :
                     ~IsNoise(events[j]) /\ ParseMessage(m, events[j]).raised}
        stop == IF Fails = {} THEN Len(events)
                ELSE (CHOOSE j \in Fails : \A j2 \in Fails : j <= j2) - 1
        kept == SelectSeq(SubSeq(events, 1, stop), Decodes) IN
    acc \o [j \in 1..Len(kept) |-> ParseMessage(m, kept[j]).log]

\* for log_event in response["events"]: the noise line is skipped, a line
\* that fails to decode is passed over, the others are appended to logs
RECURSIVE IngestEvents(_, _, _, _)
IngestEvents(m, events, k, acc) ==
    IF k > Len(events) THEN acc
    ELSE IF IsNoise(events[k]) THEN IngestEvents(m, events, k + 1, acc)
    ELSE LET parsed == ParseMessage(m, events[k]) IN
         IF parsed.raised THEN IngestEvents(m, events, k + 1, acc)
         ELSE IngestEvents(m, events, k + 1, Append(acc, parsed.log))

\* the progress line of skipper_cloud_watch_parser.py reads log_event on
\* every page but the first, outside any try: it raises when no event was
\* iterated yet.  The one of cloudwatch.py is inside a try
PrintRaises(m, page, event) == m # "cloudwatch" /\ page # 0 /\ event = NoEvent

\* sleep_time = 0.1, in tenths of a second
BaseSleep == 1

\* faulty variant of RequestFails: after a failed request the loop goes on to
\* the page after the one that failed
RequestFailsAdvances ==
    /\ pc = "request"
    /\ IF first
       THEN /\ pc' = "raised"
            /\ UNCHANGED <<sleep_time, i>>
       ELSE /\ sleep_time < BaseSleep * 2 ^ MaxRetries
            /\ sleep_time' = sleep_time * 2
            /\ i' = i + 1
            /\ pc' = pc
    /\ UNCHANGED <<batchVars, module, callVars, services, hotel_codes, row, logs, log_dict, keys,
                   log_stats, n, locals, source, first, next_token, lines, log_event>>

\* filter_log_events(...) raises.  The first request of a source is outside
\* the try and the exception leaves ingest; a later one sleeps sleep_time,
\* doubles it and is sent again
RequestFails ==
    /\ pc = "request"
    /\ IF first
       THEN /\ pc' = "raised"
            /\ UNCHANGED sleep_time
       ELSE /\ sleep_time < BaseSleep * 2 ^ MaxRetries
            /\ sleep_time' = sleep_time * 2
            /\ pc' = pc
    /\ UNCHANGED <<batchVars, module, callVars, aggVars, logs, log_dict, keys, log_stats, n, locals,
                   source, first, next_token, lines, log_event>>

\* filter_log_events(...) returns a response with these events and, when
\* more is true, a nextToken; the rest of the body of the while loop follows,
\* then the loop tests and the step to the next source
RequestSucceeds(events, more) ==
    /\ pc = "request"
    /\ Len(lines) + Len(events) <= MaxLines
    /\ more => i + 1 < MaxPages
    /\ logs' = IngestEvents(module, events, 1, logs)
    /\ lines' = lines \o events
    /\ log_event' = IF events = <<>> THEN log_event ELSE events[Len(events)]
    /\ sleep_time' = BaseSleep
    /\ IF PrintRaises(module, i, log_event')
       THEN /\ pc' = "raised"
            /\ UNCHANGED <<source, first, next_token, i>>
       ELSE IF more
       THEN /\ next_token' = Tokens[i + 1]
            /\ first' = FALSE
            /\ i' = i + 1
            /\ UNCHANGED <<source, pc>>
       ELSE /\ source' = source + 1
            /\ next_token' = None
            /\ first' = TRUE
            /\ i' = 0
            /\ pc' = IF source = Len(Sources) THEN "done" ELSE pc
    /\ UNCHANGED <<batchVars, module, callVars, services, hotel_codes, row, log_dict, keys, log_stats,
                   n, locals>>

InitIngest ==
    /\ module \in StatsModules
    /\ NoBatch
    /\ services = <<>>
    /\ hotel_codes = <<>>
    /\ row = NoRow
    /\ i = 0
    /\ logs = <<>>
    /\ log_dict = <<>>
    /\ keys = <<>>
    /\ log_stats = <<>>
    /\ pc = "request"
    /\ n = 0
    /\ locals = Unbound
    /\ NoCall
    /\ source = 1
    /\ first = TRUE
    /\ next_token = None
    /\ sleep_time = BaseSleep
    /\ lines = <<>>
    /\ log_event = NoEvent

NextIngest ==
    \/ RequestFails
    \/ \E events \in Texts(EventsOf(module), MaxLines - Len(lines)), more \in BOOLEAN :
          RequestSucceeds(events, more)

SpecIngest == InitIngest /\ [][NextIngest]_vars

\* ingest when every page request eventually succeeds: the first request of
\* a source is sent once, so it succeeds; a request with a nextToken may fail
\* and is sent again until it succeeds
RequestFailsRetried == ~first /\ RequestFails

NextIngestFair ==
    \/ RequestFailsRetried
    \/ \E events \in Texts(EventsOf(module), MaxLines - Len(lines)), more \in BOOLEAN :
          RequestSucceeds(events, more)

SpecIngestFair ==
    /\ InitIngest
    /\ [][NextIngestFair]_vars
    /\ WF_vars(\E events \in Texts(EventsOf(module), MaxLines - Len(lines)),
                  more \in BOOLEAN : RequestSucceeds(events, more))

(***************************************************************************)
(* The pipeline of main.py for one batch: get_log_stats of cloudwatch.py,  *)
(* write_full_log, and parse_logs reading the rows back.                   *)
(***************************************************************************)
MaxEvents == 3

Time042 == [us |-> 420000, ps |-> 0]

\* the three events of trace X and two events of another trace
RequestEvent ==
    Log(1, Json("X", None, <<"concierge", "windsurfer", "GetAvailability">>, {},
                <<"request">>))
GrpcEvent == Log(2, Json("X", None, <<>>, {}, GrpcAvailability))
ResponseEvent == Log(3, Json("X", None, <<>>, {<<"time", Time042>>}, <<"response">>))

\* a "GRPC Request" whose object has none of the three hotel keys
GrpcNoKeys == <<"GRPC Request", "{", "roomType", "KING", "}">>
GrpcNoKeysEvent == Log(5, Json("X", None, <<>>, {}, GrpcNoKeys))

\* an event whose stats block has no time
CountEvent == Log(6, Json("X", None, <<>>, {<<"count", Count3>>}, <<"response">>))

BatchLogs ==
    { RequestEvent, GrpcEvent, ResponseEvent, GrpcNoKeysEvent, CountEvent,
      Log(1, Json("Y", None, <<"sabre", "adapter", "GetRoomRate">>, {}, <<"request">>)),
      Log(4, Json("Y", None, <<>>, {<<"time", Time20>>}, <<"response">>)) }

\* an event is appended to the logs that create_logs hands to get_log_stats
ArriveEvent(log) ==
    /\ pc = "input"
    /\ Len(logs) < MaxEvents
    /\ logs' = Append(logs, log)
    /\ UNCHANGED <<batchVars, module, callVars, ingVars, aggVars, log_dict, keys, log_stats, pc, n,
                   locals>>

\* the row that write_full_log writes for a record and csv.reader reads
\* back (columns 1..4): None is written as the empty text
RowOf(stat) ==
    [hotel_code |-> IF stat.hotel_code = None THEN "" ELSE stat.hotel_code,
     service |-> stat.service,
     api_type |-> stat.api_type,
     latency |-> stat.end_to_end_latency]

\* parse_logs folds the next row of the file written from log_stats
FoldRecord ==
    /\ pc = "done"
    /\ i < Len(log_stats)
    /\ Fold(RowOf(log_stats[i + 1]))

InitPipeline ==
    /\ module = "cloudwatch"
    /\ NoBatch
    /\ services = [s \in ServiceNames(module) |-> Service(module, s)]
    /\ hotel_codes = <<>>
    /\ row = NoRow
    /\ i = 0
    /\ logs = <<>>
    /\ log_dict = <<>>
    /\ keys = <<>>
    /\ log_stats = <<>>
    /\ pc = "input"
    /\ n = 0
    /\ locals = Unbound
    /\ NoCall
    /\ NoIngest

NextPipeline ==
    \/ \E log \in BatchLogs : ArriveEvent(log)
    \/ Call
    \/ Group
    \/ EndGroup
    \/ Classify
    \/ ReturnStats
    \/ FoldRecord

SpecPipeline == InitPipeline /\ [][NextPipeline]_vars

(***************************************************************************)
(* create_logs of main.py: the batches, the window of every partition, the *)
(* worker threads of the ThreadPoolExecutor and the collection of their    *)
(* results.  A worker is a call of ingest, reduced to what create_logs     *)
(* sees of it: the pages it receives, the list it builds, its return or    *)
(* the exception of a first page request.  Times are minutes after         *)
(* datetime.now().  The constants are scaled down: three partitions per    *)
(* batch and two worker threads instead of ten and ten.                    *)
(***************************************************************************)
MaxDays == 2
MaxFetched == 1

minutes_in_day == 3
minutes_increment == 1
max_threads == 2

\* executor.submit(cw_log.ingest, cw_log.log_streams, start_date, end_date, ...)
Future(s, e) ==
    [start_time |-> s, end_time |-> e, state |-> "pending", source |-> 1,
     first |-> TRUE, result |-> <<>>]

\* the calls that a worker thread is executing
Running == {k \in 1..Len(futures) : futures[k].state = "running"}

\* the top of the body of  for day in range(start_day, end_day*multipler)
BeginDay ==
    /\ pc = "day"
    /\ day < MaxDays
    /\ logs' = <<>>
    /\ futures' = <<>>
    /\ minutes' = 0
    /\ start' = end_date - minutes_in_day
    /\ end' = end_date
    /\ pc' = "submit"
    /\ UNCHANGED <<module, aggVars, callVars, ingVars, log_dict, keys, log_stats, n, locals,
                   day, start_date, end_date, files>>

\* one iteration of  while minutes < minutes_in_day
Submit ==
    /\ pc = "submit"
    /\ minutes < minutes_in_day
    /\ end_date' = start_date
    /\ start_date' = start_date - minutes_increment
    /\ futures' = Append(futures, Future(start_date', end_date'))
    /\ minutes' = minutes + minutes_increment
    /\ UNCHANGED <<module, aggVars, callVars, ingVars, statVars, day, start, end, files>>

\* a worker thread takes the oldest call of the queue
WorkerStart(k) ==
    /\ k \in 1..Len(futures)
    /\ futures[k].state = "pending"
    /\ \A j \in 1..(k - 1) : futures[j].state # "pending"
    /\ Cardinality(Running) < max_threads
    /\ futures' = [futures EXCEPT ![k].state = "running"]
    /\ UNCHANGED <<module, aggVars, callVars, ingVars, statVars, day, start_date, end_date,
                   minutes, start, end, files>>

\* ingest of call k receives a response: the event of the page, if any, is
\* appended to the list of this call; with a nextToken the next page of the
\* source is requested, without one the next source is started or, after
\* the last source, the list is returned.  A source has at most two pages
WorkerPage(k, hasEvent, more) ==
    /\ k \in Running
    /\ hasEvent => Len(futures[k].result) < MaxFetched
    /\ more => futures[k].first
    /\ LET f == futures[k]
           result == IF hasEvent
                     THEN Append(f.result, <<f.start_time, Len(f.result) + 1>>)
                     ELSE f.result IN
       futures' = [futures EXCEPT ![k] =
                     IF more
                     THEN [f EXCEPT !.first = FALSE, !.result = result]
                     ELSE [f EXCEPT !.first = TRUE, !.result = result,
                                    !.source = f.source + 1,
                                    !.state = IF f.source = Len(Sources) THEN "returned"
                                              ELSE "running"]]
    /\ UNCHANGED <<module, aggVars, callVars, ingVars, statVars, day, start_date, end_date,
                   minutes, start, end, files>>

\* the first page request of a source of call k raises: the exception leaves
\* ingest and is stored in the future
WorkerRaise(k) ==
    /\ k \in Running
    /\ futures[k].first
    /\ futures' = [futures EXCEPT ![k].state = "raised"]
    /\ UNCHANGED <<module, aggVars, callVars, ingVars, statVars, day, start_date, end_date,
                   minutes, start, end, files>>

\* the with block is left: the executor waits for every submitted call
Shutdown ==
    /\ pc = "submit"
    /\ minutes >= minutes_in_day
    /\ \A k \in 1..Len(futures) : futures[k].state \in {"returned", "raised"}
    /\ pc' = "collect"
    /\ n' = 0
    /\ UNCHANGED <<module, aggVars, callVars, ingVars, logs, log_dict, keys, log_stats, locals,
                   batchVars>>

\* faulty variant of Extend: the new events are put in front
ExtendFront(list, result) == result \o list

\* logs.extend(result)
Extend(list, result) == list \o result

\* faulty variant of Collect: a call that raised counts as an empty list
CollectSkipsFailed ==
    /\ pc = "collect"
    /\ n < Len(futures)
    /\ logs' = IF futures[n + 1].state = "raised" THEN logs
               ELSE Extend(logs, futures[n + 1].result)
    /\ n' = n + 1
    /\ UNCHANGED <<module, aggVars, callVars, ingVars, log_dict, keys, log_stats, locals,
                   batchVars, pc>>

\* one iteration of  for future in futures: logs.extend(future.result());
\* result() raises the exception of the call again, which leaves create_logs
Collect ==
    /\ pc = "collect"
    /\ n < Len(futures)
    /\ IF futures[n + 1].state = "raised"
       THEN /\ pc' = "raised"
            /\ UNCHANGED <<logs, n>>
       ELSE /\ logs' = Extend(logs, futures[n + 1].result)
            /\ n' = n + 1
            /\ pc' = pc
    /\ UNCHANGED <<module, aggVars, callVars, ingVars, log_dict, keys, log_stats, locals,
                   batchVars>>

\* a file named after start and end, with the number of events it was given
File(kind) == [kind |-> kind, start |-> start, end |-> end, events |-> Len(logs)]

\* write_basic_timing_log(logs, f"timing_log_day_{start}_to_{end}", ...)
WriteBasic ==
    /\ pc = "collect"
    /\ n = Len(futures)
    /\ files' = Append(files, File("basic"))
    /\ pc' = "stats"
    /\ UNCHANGED <<module, aggVars, callVars, ingVars, logs, log_dict, keys, log_stats, n,
                   locals, day, futures, start_date, end_date, minutes, start, end>>

\* stats = get_log_stats(logs); write_full_log(stats, f"full_log_day_{start}_to_{end}", ...)
WriteFull ==
    /\ pc = "stats"
    /\ files' = Append(files, File("full"))
    /\ day' = day + 1
    /\ pc' = "day"
    /\ UNCHANGED <<module, aggVars, callVars, ingVars, logs, log_dict, keys, log_stats, n,
                   locals, futures, start_date, end_date, minutes, start, end>>

InitBatch ==
    /\ module = "main"
    /\ NoBatch
    /\ services = <<>>
    /\ hotel_codes = <<>>
    /\ row = NoRow
    /\ i = 0
    /\ logs = <<>>
    /\ log_dict = <<>>
    /\ keys = <<>>
    /\ log_stats = <<>>
    /\ pc = "day"
    /\ n = 0
    /\ locals = Unbound
    /\ NoCall
    /\ NoIngest

NextBatch ==
    \/ BeginDay
    \/ Submit
    \/ \E k \in 1..Len(futures) : WorkerStart(k)
    \/ \E k \in 1..Len(futures), hasEvent, more \in BOOLEAN : WorkerPage(k, hasEvent, more)
    \/ \E k \in 1..Len(futures) : WorkerRaise(k)
    \/ Shutdown
    \/ Collect
    \/ WriteBasic
    \/ WriteFull

SpecBatch == InitBatch /\ [][NextBatch]_vars

(***************************************************************************)
(* Properties of the aggregator                                            *)
(***************************************************************************)
\* the Service of a hotel code, or a fresh one when the code was not seen yet
HotelService(hc, h) ==
    IF h \in DOMAIN hc THEN hc[h]
    ELSE [name |-> None, count |-> 0, errors |-> 0, latency |-> <<>>,
          ep |-> [e \in EndPointNames(module) |-> EndPoint]]

Balanced(x) == x.count = Len(x.latency) + x.errors

BalancedService(s) == Balanced(s) /\ \A e \in DOMAIN s.ep : Balanced(s.ep[e])

\* the step folded a row that passed the service test
FoldedKnown == i' = i + 1 /\ row'.service \in ServiceNames(module) /\ row'.service # ""

\* the step folded a row that failed the service test
FoldedSkipped == i' = i + 1 /\ ~(row'.service \in ServiceNames(module) /\ row'.service # "")

AtOrBelowThreshold == {"0", "1e-06"}
AboveThreshold == {"1.000001e-06", "0.42"}

NoLatencyChange ==
    /\ \A s \in DOMAIN services :
         /\ services'[s].latency = services[s].latency
         /\ \A e \in DOMAIN services[s].ep : services'[s].ep[e].latency = services[s].ep[e].latency
    /\ \A h \in DOMAIN hotel_codes' :
         /\ hotel_codes'[h].latency = HotelService(hotel_codes, h).latency
         /\ \A e \in DOMAIN hotel_codes'[h].ep :
              hotel_codes'[h].ep[e].latency = HotelService(hotel_codes, h).ep[e].latency

NoErrorChange ==
    /\ \A s \in DOMAIN services :
         /\ services'[s].errors = services[s].errors
         /\ \A e \in DOMAIN services[s].ep : services'[s].ep[e].errors = services[s].ep[e].errors
    /\ \A h \in DOMAIN hotel_codes' :
         /\ hotel_codes'[h].errors = HotelService(hotel_codes, h).errors
         /\ \A e \in DOMAIN hotel_codes'[h].ep :
              hotel_codes'[h].ep[e].errors = HotelService(hotel_codes, h).ep[e].errors

\* the latency of row' was appended to the four lists of endpoint e
FourSamples(e) ==
    LET r == row'
        x == Float(r.latency)
        h == HotelService(hotel_codes, r.hotel_code) IN
    /\ services'[r.service].latency = Append(services[r.service].latency, x)
    /\ services'[r.service].ep[e].latency = Append(services[r.service].ep[e].latency, x)
    /\ hotel_codes'[r.hotel_code].latency = Append(h.latency, x)
    /\ hotel_codes'[r.hotel_code].ep[e].latency = Append(h.ep[e].latency, x)

\* the four error counters of endpoint e were incremented by one
FourErrors(e) ==
    LET r == row'
        h == HotelService(hotel_codes, r.hotel_code) IN
    /\ services'[r.service].errors = services[r.service].errors + 1
    /\ services'[r.service].ep[e].errors = services[r.service].ep[e].errors + 1
    /\ hotel_codes'[r.hotel_code].errors = h.errors + 1
    /\ hotel_codes'[r.hotel_code].ep[e].errors = h.ep[e].errors + 1

\* C1: count == len(latency) + errors holds for every EndPoint and every
\* Service, global and per hotel code, after every folded record.
CountBalance ==
    /\ \A s \in DOMAIN services : BalancedService(services[s])
    /\ \A h \in DOMAIN hotel_codes : BalancedService(hotel_codes[h])

SampleXorError ==
    [][(FoldedKnown /\ row'.api_type \in DOMAIN OpTable(module)) =>
         LET e == OpTable(module)[row'.api_type] IN
         \/ FourSamples(e) /\ NoErrorChange
         \/ FourErrors(e) /\ NoLatencyChange]_vars

\* C4: a record with a known service and an operation outside the operation
\* table increments the count of the global Service and of the hotel-code
\* Service by one and leaves every EndPoint bucket unchanged.
UnknownOperationCountsService ==
    [][(FoldedKnown /\ row'.api_type \notin DOMAIN OpTable(module)) =>
         /\ services'[row'.service].count = services[row'.service].count + 1
         /\ hotel_codes'[row'.hotel_code].count =
              HotelService(hotel_codes, row'.hotel_code).count + 1
         /\ \A s \in DOMAIN services : services'[s].ep = services[s].ep
         /\ \A h \in DOMAIN hotel_codes' :
              hotel_codes'[h].ep = HotelService(hotel_codes, h).ep]_vars

\* C4 witness: CreateConfig was folded for windsurfer.
UnknownOperationWitness ==
    /\ row.service = "windsurfer" /\ row.api_type = "CreateConfig"
    /\ services["windsurfer"].count >= 1
    /\ row.hotel_code \in DOMAIN hotel_codes

\* C5: for a record with a known service and an unknown operation the
\* top-level Service.latency receives the latency when it is above 1e-6 and
\* the top-level Service.errors is incremented otherwise.
UnknownOperationUpdatesTopLevel ==
    [][(FoldedKnown /\ row'.api_type \notin DOMAIN OpTable(module)) =>
         IF row'.latency \in AboveThreshold
         THEN services'[row'.service].latency =
                Append(services[row'.service].latency, Float(row'.latency))
         ELSE services'[row'.service].errors = services[row'.service].errors + 1]_vars

\* C6: a record whose service is empty or not a known service name changes
\* no global Service, no hotel-code Service and no EndPoint, and creates no
\* hotel-code entry.
UnknownServiceChangesNothing ==
    [][FoldedSkipped => services' = services /\ hotel_codes' = hotel_codes]_vars

\* C6 witness: rows with unknown services were folded after a known one and
\* only the known one is accounted for.
UnknownServiceWitness ==
    /\ i = 2 /\ row.service = "concierge"
    /\ services["windsurfer"].count = 1
    /\ Cardinality(DOMAIN hotel_codes) = 1

\* C13: the per-tenant rollup holds one entry per (tenant id, service) pair:
\* the hotel-code entry that receives a folded record is labelled with the
\* service of that record, so records of different services never share an
\* entry.
TenantEntryPerService ==
    [][FoldedKnown => hotel_codes'[row'.hotel_code].name = row'.service]_vars

\* the sum of f[x] over the x of S
RECURSIVE SumOver(_, _)
SumOver(S, f) ==
    IF S = {} THEN 0
    ELSE LET x == CHOOSE y \in S : TRUE IN f[x] + SumOver(S \ {x}, f)

\* the sum over the Service objects of the dict d
SumCount(d) == SumOver(DOMAIN d, [k \in DOMAIN d |-> d[k].count])
SumEpCount(d, e) == SumOver(DOMAIN d, [k \in DOMAIN d |-> d[k].ep[e].count])
SumEpErrors(d, e) == SumOver(DOMAIN d, [k \in DOMAIN d |-> d[k].ep[e].errors])
SumEpSamples(d, e) == SumOver(DOMAIN d, [k \in DOMAIN d |-> Len(d[k].ep[e].latency)])

\* C22: the global and the per-hotel-code rollups account for the same
\* records: the counts of the global Service objects and of the hotel-code
\* Service objects have the same sum, and so have the count, the errors and
\* the number of latency samples of every operation bucket.
RollupsAgree ==
    /\ SumCount(services) = SumCount(hotel_codes)
    /\ \A e \in EndPointNames(module) :
         /\ SumEpCount(services, e) = SumEpCount(hotel_codes, e)
         /\ SumEpErrors(services, e) = SumEpErrors(hotel_codes, e)
         /\ SumEpSamples(services, e) = SumEpSamples(hotel_codes, e)

\* C22 witness: two records of two services were folded into one hotel code.
RollupsAgreeWitness ==
    /\ i = 2 /\ Cardinality(DOMAIN hotel_codes) = 1
    /\ services["windsurfer"].count = 1
    /\ "oracle" \in DOMAIN services /\ services["oracle"].count = 1

\* the sums over the endpoints of the Service object s
EpCountOf(s) == SumOver(DOMAIN s.ep, [e \in DOMAIN s.ep |-> s.ep[e].count])
EpErrorsOf(s) == SumOver(DOMAIN s.ep, [e \in DOMAIN s.ep |-> s.ep[e].errors])
EpSamplesOf(s) == SumOver(DOMAIN s.ep, [e \in DOMAIN s.ep |-> Len(s.ep[e].latency)])

\* the records of Service s with an operation outside the endpoint table
Unbucketed(s) == s.count - EpCountOf(s)

\* C23: for every Service object, global or per hotel code, len(latency) is
\* the sum of len(EndPoint.latency), errors the sum of EndPoint.errors, and
\* count is at least the sum of EndPoint.count; the difference grows by one
\* with every folded record whose operation is outside the endpoint table and
\* with no other, so it is zero exactly when there was none.
ServiceSumsItsEndPoints ==
    /\ [](/\ \A s \in DOMAIN services :
              /\ Len(services[s].latency) = EpSamplesOf(services[s])
              /\ services[s].errors = EpErrorsOf(services[s])
              /\ Unbucketed(services[s]) >= 0
          /\ \A h \in DOMAIN hotel_codes :
              /\ Len(hotel_codes[h].latency) = EpSamplesOf(hotel_codes[h])
              /\ hotel_codes[h].errors = EpErrorsOf(hotel_codes[h])
              /\ Unbucketed(hotel_codes[h]) >= 0)
    /\ [][LET grows == IF row'.api_type \in DOMAIN OpTable(module) THEN 0 ELSE 1 IN
          /\ \A s \in DOMAIN services :
               IF FoldedKnown /\ row'.service = s
               THEN Unbucketed(services'[s]) = Unbucketed(services[s]) + grows
               ELSE services'[s] = services[s]
          /\ \A h \in DOMAIN hotel_codes' :
               IF FoldedKnown /\ row'.hotel_code = h
               THEN Unbucketed(hotel_codes'[h]) =
                       Unbucketed(HotelService(hotel_codes, h)) + grows
               ELSE hotel_codes'[h] = hotel_codes[h]]_vars

\* C23 witness: windsurfer folded one record with a bucket and one without.
ServiceSumsWitness ==
    /\ services["windsurfer"].count = 2
    /\ EpCountOf(services["windsurfer"]) = 1
    /\ row.api_type = "CreateConfig"

(***************************************************************************)
(* Properties of the correlator and classifier                             *)
(***************************************************************************)
\* the number of logs the first loop has gone through
Processed ==
    IF pc = "group" THEN n
    ELSE IF pc \in {"classify", "done", "raised"} THEN Len(logs) ELSE 0

\* the processed logs that carry the correlation id u, in arrival order
Arrived(u) ==
    LET HasId(log) == log.request_uuid = u IN
    SelectSeq(SubSeq(logs, 1, Processed), HasId)

\* C7: for every correlation id the events of its trace are in the relative
\* order of the input list, whatever their timestamps, and the emitted record
\* lists them in that order too.
ArrivalOrderPreserved ==
    /\ \A u \in DOMAIN log_dict : log_dict[u] = Arrived(u)
    /\ \A k \in 1..Len(log_stats) :
         LET dm == log_stats[k].downstream_messages
             t == Arrived(log_stats[k].request_uuid) IN
         /\ Len(dm) = Len(t)
         /\ \A j \in 1..Len(t) : dm[j][1] = t[j].time

\* C7 witness: cloudwatch.py emitted a trace whose first event is later in
\* time (t=5) than its second (t=1).
ArrivalOrderWitness ==
    /\ module = "cloudwatch" /\ pc = "done"
    /\ \E k \in 1..Len(log_stats) :
         LET dm == log_stats[k].downstream_messages IN
         Len(dm) = 2 /\ dm[1][1] = 5 /\ dm[2][1] = 1

\* C8: every event with a non-empty request_uuid is in exactly one trace, the
\* one keyed by its request_uuid, and events with an empty or missing
\* request_uuid are dropped: no trace is keyed by an empty or null id.
EmptyIdsAreDropped ==
    /\ \A u \in DOMAIN log_dict :
         /\ u # "" /\ u # None
         /\ \A k \in 1..Len(log_dict[u]) : log_dict[u][k].request_uuid = u
    /\ \A u \in {"A", "B"} :
         Arrived(u) # <<>> => (u \in DOMAIN log_dict /\ log_dict[u] = Arrived(u))

\* C9: the end_to_end_latency of an emitted record is the latency of the last
\* event of the trace that carries a latency (a stats block with a time), and
\* "0" when no event of the trace carries one.
LastLatencyWins ==
    \A k \in 1..Len(log_stats) :
       LET t == Arrived(log_stats[k].request_uuid)
           Bearing == {j \in 1..Len(t) : \E p \in t[j].stats : p[1] = "time"}
           last == CHOOSE j \in Bearing : \A j2 \in Bearing : j2 <= j IN
       log_stats[k].end_to_end_latency =
          IF Bearing = {} THEN "0"
          ELSE Str((CHOOSE p \in t[last].stats : p[1] = "time")[2])

\* a "GRPC Request" message whose embedded object cannot be extracted
MalformedGrpc(log) ==
    /\ Contains(log.message, "GRPC Request")
    /\ log.message = <<"GRPC Request", "{", "hotel", "{", "imsHotelId", "USAMEBCK", "}">>

\* C10: a "GRPC Request" event with unbalanced braces does not abort
\* get_log_stats of cloudwatch.py: every trace of the batch is classified and
\* the trace of the malformed event gets a null tenant id.
MalformedGrpcDoesNotAbort ==
    module = "cloudwatch" =>
       /\ pc # "raised"
       /\ pc = "done" =>
            \A u \in DOMAIN log_dict :
               \E k \in 1..Len(log_stats) :
                  /\ log_stats[k].request_uuid = u
                  /\ (\E j \in 1..Len(log_dict[u]) : MalformedGrpc(log_dict[u][j]))
                        => log_stats[k].hotel_code = None

\* the first name of the list that occurs in the text, "" when none does
RECURSIVE FirstMatch(_, _, _)
FirstMatch(names, text, k) ==
    IF k > Len(names) THEN ""
    ELSE IF Contains(text, names[k]) THEN names[k]
    ELSE FirstMatch(names, text, k + 1)

\* the events of an emitted record whose text names an operation
NamesOperation(log_stat) ==
    {j \in 1..Len(log_stat.downstream_messages) :
        FirstMatch(ApiNames, log_stat.downstream_messages[j][4], 1) # ""}

\* C14: when the text of the event that resolves the operation contains more
\* than one known operation name, the record gets the first matching name of
\* the ordered operation list.
FirstOperationNameWins ==
    \A k \in 1..Len(log_stats) :
       LET Matching == NamesOperation(log_stats[k])
           earliest == CHOOSE j \in Matching : \A j2 \in Matching : j <= j2 IN
       Matching # {} =>
          log_stats[k].api_type =
             FirstMatch(ApiNames, log_stats[k].downstream_messages[earliest][4], 1)

\* the text of an event that is tested against the service names
ServiceText(log) ==
    IF module = "cloudwatch"
    THEN (IF log.service = None THEN <<>> ELSE <<log.service>>)
    ELSE log.service

\* the text of an event that is tested against the operation names
OperationText(log) == IF module = "cloudwatch" THEN log.function ELSE log.service

\* the names of the list that the earliest matching text of the sequence
\* contains; {""} when no text of the sequence contains a name
EarliestMatch(names, texts) ==
    LET Matching == {j \in 1..Len(texts) : FirstMatch(names, texts[j], 1) # ""}
        earliest == CHOOSE j \in Matching : \A j2 \in Matching : j <= j2 IN
    IF Matching = {} THEN {""}
    ELSE {names[k] : k \in {x \in 1..Len(names) : Contains(texts[earliest], names[x])}}

\* C15: the service and the operation of a trace are each fixed by the
\* earliest event, in arrival order, that matches a known name, no later
\* event changes them, and what no event matches is the empty string; the
\* emitted record carries these values.
EarliestEventFixes ==
    (pc \in {"classify", "done"} /\ n >= 1 /\ locals # Unbound) =>
       LET t == log_dict[keys[n]] IN
       /\ locals.service \in
             EarliestMatch(KnownServices, [j \in 1..Len(t) |-> ServiceText(t[j])])
       /\ locals.api_type \in
             EarliestMatch(IF module = "cloudwatch" THEN ApiNames ELSE SkipperApiNames,
                           [j \in 1..Len(t) |-> OperationText(t[j])])
       /\ \A k \in 1..Len(log_stats) :
             log_stats[k].request_uuid = keys[n] =>
                /\ log_stats[k].service = locals.service
                /\ log_stats[k].api_type = locals.api_type

\* the distinct non-empty correlation ids of the first k logs, in the order
\* of their first appearance
RECURSIVE FirstAppearance(_)
FirstAppearance(k) ==
    IF k = 0 THEN <<>>
    ELSE LET before == FirstAppearance(k - 1)
             u == logs[k].request_uuid IN
         IF u = None \/ u = "" \/ \E j \in 1..Len(before) : before[j] = u
         THEN before
         ELSE Append(before, u)

\* C24: get_log_stats of cloudwatch.py emits one record per distinct
\* non-empty request_uuid, in the order of first appearance; every classified
\* trace has an event, its initial_time is the time of the first-arrived event
\* of the trace, and no classified trace is left without a record.
OneRecordPerTrace ==
    (module = "cloudwatch" /\ pc \in {"classify", "done", "raised"}) =>
        /\ Len(log_stats) = n
        /\ Len(log_stats) <= Len(FirstAppearance(Len(logs)))
        /\ pc = "done" => Len(log_stats) = Len(FirstAppearance(Len(logs)))
        /\ \A k \in 1..Len(log_stats) :
             /\ log_stats[k].request_uuid = FirstAppearance(Len(logs))[k]
             /\ Len(Arrived(log_stats[k].request_uuid)) >= 1
             /\ log_stats[k].initial_time = Arrived(log_stats[k].request_uuid)[1].time

\* C24 witness: two traces were returned in the order of arrival, the first
\* of them with the later timestamp.
OneRecordPerTraceWitness ==
    /\ module = "cloudwatch" /\ pc = "done" /\ Len(log_stats) = 2
    /\ log_stats[1].request_uuid = "B" /\ log_stats[1].initial_time = 5
    /\ log_stats[2].request_uuid = "A" /\ log_stats[2].initial_time = 1

(***************************************************************************)
(* Properties of extract_hotel_code_from_log                               *)
(***************************************************************************)
\* C16: on a message whose first balanced object parses to a dict,
\* extract_hotel_code_from_log returns the imsHotelId of the hotel object
\* under the first present key in the order hotel, availabilityRequest.hotel,
\* reservationDetails.hotel, wherever the keys stand in the text, and returns
\* null without raising when none of the three keys is present.
HotelKeyOrder ==
    (pc = "returned" /\ arg.closed) =>
       IF arg.hotel # "absent"
       THEN arg.hotel = "id" => ret = Return("H1")
       ELSE IF arg.availabilityRequest # "absent"
       THEN arg.availabilityRequest = "id" => ret = Return("H2")
       ELSE IF arg.reservationDetails # "absent"
       THEN arg.reservationDetails = "id" => ret = Return("H3")
       ELSE ret = Return(None)

\* C16 witness: availabilityRequest.hotel is chosen although reservationDetails
\* stands before it in the text.
HotelKeyOrderWitness ==
    /\ pc = "returned" /\ arg.closed /\ arg.reversed
    /\ arg.hotel = "absent" /\ arg.reservationDetails = "id"
    /\ arg.availabilityRequest = "id" /\ ret = Return("H2")

(***************************************************************************)
(* Properties of _parse_formatted_message (pipe-delimited variant)         *)
(***************************************************************************)
\* the index of the first opening brace at or after the first hyphen, 0 when
\* there is none
FirstOpen(message) ==
    LET Os == {j \in 1..Len(message) :
                  j >= FirstHyphen(message, 1) /\ message[j] = "{"} IN
    IF Os = {} THEN 0 ELSE CHOOSE j \in Os : \A j2 \in Os : j <= j2

\* the index of the brace that closes the first opening brace, 0 when it is
\* never closed
FirstClose(message) ==
    IF FirstOpen(message) = 0 THEN 0 ELSE MatchClose(message, FirstOpen(message) + 1, 1)

\* the first object literal of the tail is balanced and is a dict, nested
\* values allowed
HasDictLiteral(message) ==
    /\ FirstClose(message) # 0
    /\ WellFormed(SubSeq(message, FirstOpen(message), FirstClose(message)), 2)

\* C17: the extractor tracks brace nesting: when the first object literal of
\* the tail is a dict, with or without nested objects, it is parsed whole, its
\* request_uuid is returned and sub_message is exactly the text after the
\* outer closing brace.
NestingIsTracked ==
    (pc = "returned" /\ arg # <<>> /\ HasDictLiteral(arg)) =>
       LET content == SubSeq(arg, FirstOpen(arg), FirstClose(arg))
           uuid == DictGet(content, 2, "request_uuid") IN
       /\ ~ret.raised
       /\ ret.message = SubSeq(arg, FirstClose(arg) + 1, Len(arg))
       /\ (uuid # 0 /\ DictGet(content, 2, "requestUuid") = 0)
             => ret.request_uuid = content[uuid]

\* C18: the extractor raises whenever the tail holds no object literal at all
\* or an opening brace that is never closed; it returns no FormattedMessage
\* with an empty request_uuid for such a tail.
NoLiteralRaises ==
    (pc = "returned" /\ arg # <<>> /\ FirstClose(arg) = 0) => ret.raised

(***************************************************************************)
(* Properties of the decoder and of ingest                                 *)
(***************************************************************************)
\* the decoded events of the lines that are neither noise nor undecodable
Decoded(m, events) ==
    LET Keeps(e) == ~IsNoise(e) /\ ~ParseMessage(m, e).raised
        kept == SelectSeq(events, Keeps) IN
    [j \in 1..Len(kept) |-> ParseMessage(m, kept[j]).log]

\* C11: a line that matches the health-check pattern or fails to decode is
\* dropped and the next line is processed: after every response the list is
\* exactly the decoded events of the other lines received so far, in the
\* order received, and no step that received a line makes ingest raise.
OnlyBadLinesDropped ==
    [][/\ logs' = Decoded(module, lines')
       /\ pc' = "raised" => lines' = lines]_vars

\* C11 witness: ingest returned after a noise line, a line that fails to
\* decode and a good line, with the event of the good line alone.
OnlyBadLinesDroppedWitness ==
    /\ pc = "done" /\ Len(lines) = 3
    /\ IsNoise(lines[1])
    /\ ~IsNoise(lines[2]) /\ ParseMessage(module, lines[2]).raised
    /\ ~ParseMessage(module, lines[3]).raised
    /\ logs = <<ParseMessage(module, lines[3]).log>>

\* the severities of the events that the json objects among the received
\* lines should give: the level when it is a known severity, UNDEFINED when
\* it is absent or unknown
ExpectedSeverities ==
    LET IsObject(e) == ~IsNoise(e) /\ IsJsonObject(e.message)
        kept == SelectSeq(lines, IsObject) IN
    [j \in 1..Len(kept) |->
        IF JsonGet(kept[j].message, "level") \in MessageType("cloudwatch")
        THEN JsonGet(kept[j].message, "level") ELSE "UNDEFINED"]

\* C19: decoding a json line yields an event for every parsable json object,
\* with severity UNDEFINED both when "level" is absent and when its value is
\* not a known severity; an unknown level never drops the line.
UnknownLevelIsUndefined ==
    module = "cloudwatch" =>
       [k \in 1..Len(logs) |-> logs[k].message_type] = ExpectedSeverities

\* the step is a page request that failed: the first request of a source
\* that ends ingest, or a later one that is sent again
RequestFailed ==
    /\ pc = "request" /\ i' = i /\ source' = source
    /\ \/ first /\ pc' = "raised"
       \/ ~first /\ pc' = "request"

\* C20: a failed page request is sent again unchanged after a sleep that
\* starts at 0.1 s and doubles with every consecutive failure; the sleep is
\* back at 0.1 s for each new page and ingest moves on only after a response.
FailedRequestIsRetried ==
    [][/\ RequestFailed =>
            /\ pc' = "request"
            /\ first' = first /\ next_token' = next_token
            /\ sleep_time' = 2 * sleep_time
            /\ logs' = logs /\ lines' = lines
       /\ (i' # i \/ source' # source) => sleep_time' = BaseSleep]_vars

\* the step is a request that raised: the sleep of the retry loop was
\* doubled, or the first request of a source ended ingest
FailedAttempt ==
    /\ pc = "request"
    /\ \/ sleep_time' = 2 * sleep_time
       \/ first /\ pc' = "raised"

\* the step is a request that returned a response
PageFetched == pc = "request" /\ ~FailedAttempt

\* C26: the events of a fetched page are decoded and appended once, after
\* those of the pages fetched before; a failed attempt appends nothing and
\* is followed by the same request, and a fetched page is followed by the
\* request of the next page of the source or of the first page of the next
\* source.
EachPageAppendedOnce ==
    [][/\ FailedAttempt =>
            /\ logs' = logs /\ lines' = lines
            /\ pc' = "request" =>
                 /\ source' = source /\ i' = i
                 /\ next_token' = next_token /\ first' = first
       /\ PageFetched =>
            /\ Len(lines') >= Len(lines)
            /\ SubSeq(lines', 1, Len(lines)) = lines
            /\ logs' = logs \o Decoded(module, SubSeq(lines', Len(lines) + 1, Len(lines')))
            /\ pc' = "request" =>
                 \/ source' = source /\ i' = i + 1 /\ ~first' /\ next_token' = Tokens[i + 1]
                 \/ source' = source + 1 /\ i' = 0 /\ first' /\ next_token' = None]_vars

\* C26 witness: the events of the first page were appended and the request
\* of the second page has failed once.
EachPageAppendedOnceWitness ==
    /\ pc = "request" /\ i = 1 /\ ~first
    /\ sleep_time = 2 * BaseSleep
    /\ Len(lines) = 2 /\ Len(logs) = 2

\* C25: when every page request eventually succeeds and every source
\* eventually answers without nextToken, ingest returns; the pages of a
\* source are requested one after another, each with the nextToken of the
\* response before, and the next source is started only after a response
\* without nextToken.
IngestTerminates ==
    /\ <>(pc = "done")
    /\ [][/\ (pc' = "request" /\ source' = source /\ i' # i) =>
               (PageFetched /\ i' = i + 1 /\ next_token' = Tokens[i + 1])
          /\ source' # source =>
               (PageFetched /\ source' = source + 1 /\ next_token' = None /\ first')]_vars

\* ingest of cloudwatch.py does return under these conditions
CloudwatchIngestTerminates == <>(module = "cloudwatch" => pc = "done")

(***************************************************************************)
(* Properties of the pipeline                                              *)
(***************************************************************************)
\* the trace of X is made of the request, the GRPC request and the response,
\* once each, in any order
ScenarioTrace ==
    /\ "X" \in DOMAIN log_dict
    /\ Len(log_dict["X"]) = 3
    /\ {log_dict["X"][k] : k \in 1..3} = {RequestEvent, GrpcEvent, ResponseEvent}

\* C12: the trace of a windsurfer GetAvailability request, a "GRPC Request"
\* embedding imsHotelId USAMEBCK and a response with stats.time = 0.42 is
\* classified windsurfer / GetAvailability / USAMEBCK / "0.42", and folding
\* the record makes the windsurfer availability count 1, its latency list
\* [0.42] and leaves its error count at 0.
ScenarioEndToEnd ==
    ScenarioTrace =>
       /\ \A k \in 1..Len(log_stats) :
             log_stats[k].request_uuid = "X" =>
                /\ log_stats[k].service = "windsurfer"
                /\ log_stats[k].api_type = "GetAvailability"
                /\ log_stats[k].hotel_code = "USAMEBCK"
                /\ log_stats[k].end_to_end_latency = "0.42"
       /\ pc = "done" =>
             \E k \in 1..Len(log_stats) : log_stats[k].request_uuid = "X"
       /\ (pc = "done" /\ i = Len(log_stats)) =>
             /\ services["windsurfer"].ep["availability"] =
                   [count |-> 1, errors |-> 0, latency |-> <<Time042>>]
             /\ hotel_codes["USAMEBCK"].ep["availability"] =
                   [count |-> 1, errors |-> 0, latency |-> <<Time042>>]

\* C12 witness: the three events arrived response first, the record was
\* emitted and folded.
ScenarioWitness ==
    /\ ScenarioTrace /\ logs[1] = ResponseEvent
    /\ pc = "done" /\ i = Len(log_stats) /\ i = 1
    /\ services["windsurfer"].ep["availability"].count = 1

\* the index of the last event of trace t that satisfies P, 0 when none does
LastWhere(t, P(_)) ==
    IF \E k \in 1..Len(t) : P(t[k])
    THEN CHOOSE k \in 1..Len(t) : P(t[k]) /\ \A j \in (k + 1)..Len(t) : ~P(t[j])
    ELSE 0

IsGrpcRequest(log) == Contains(log.message, "GRPC Request")
HasStats(log) == log.stats # {}
HasTime(log) == \E p \in log.stats : p[1] = "time"

\* C29: the hotel_code of a record is the value extracted from the last
\* "GRPC Request" event of its trace in arrival order, null included when
\* that event has none of the three hotel keys, and "0" when the trace has
\* no "GRPC Request" event.
LastGrpcRequestWins ==
    \A k \in 1..Len(log_stats) :
        LET t == Arrived(log_stats[k].request_uuid)
            last == LastWhere(t, IsGrpcRequest) IN
        /\ last = 0 => log_stats[k].hotel_code = "0"
        /\ last # 0 =>
             log_stats[k].hotel_code = extract_hotel_code_from_log(t[last].message).value
        /\ (last # 0 /\ t[last].message = GrpcNoKeys) => log_stats[k].hotel_code = None

\* C29 witness: USAMEBCK was extracted first, then an event without hotel
\* keys arrived, and the record was returned with a null hotel_code.
LastGrpcRequestWitness ==
    /\ pc = "done" /\ Len(log_stats) = 1
    /\ logs = <<RequestEvent, GrpcEvent, GrpcNoKeysEvent>>
    /\ log_stats[1].hotel_code = None

\* the trace X is a request, a response with a valid time and then an event
\* whose stats block has no time
ResetTrace ==
    /\ "X" \in DOMAIN log_dict
    /\ {log_dict["X"][k] : k \in 1..Len(log_dict["X"])} =
          {RequestEvent, ResponseEvent, CountEvent}
    /\ LET last == LastWhere(log_dict["X"], HasStats) IN
       /\ last # 0
       /\ log_dict["X"][last] = CountEvent
       /\ \E j \in 1..(last - 1) : log_dict["X"][j] = ResponseEvent

\* C30: the latency of a record is decided by the last event of its trace
\* with a non-empty stats block ("0" when there is none): the str of its time,
\* or "0" when the block has no time.  A trace whose valid latency was reset
\* in this way is folded as an error, not as a latency sample.
StatsBlockOverwrites ==
    /\ \A k \in 1..Len(log_stats) :
          LET t == Arrived(log_stats[k].request_uuid)
              last == LastWhere(t, HasStats) IN
          log_stats[k].end_to_end_latency =
             (IF last = 0 THEN "0"
              ELSE IF HasTime(t[last])
                   THEN Str((CHOOSE p \in t[last].stats : p[1] = "time")[2])
                   ELSE "0")
    /\ (ResetTrace /\ pc = "done" /\ i = Len(log_stats)) =>
          /\ \E k \in 1..Len(log_stats) :
                log_stats[k].request_uuid = "X" /\ log_stats[k].end_to_end_latency = "0"
          /\ services["windsurfer"].ep["availability"] =
                [count |-> 1, errors |-> 1, latency |-> <<>>]
          /\ services["windsurfer"].errors = 1

\* C30 witness: request, response with time 0.42, then a stats block
\* without time; the record was folded.
StatsBlockWitness ==
    /\ logs = <<RequestEvent, ResponseEvent, CountEvent>>
    /\ pc = "done" /\ i = 1 /\ Len(log_stats) = 1
    /\ services["windsurfer"].ep["availability"].errors = 1

(***************************************************************************)
(* Properties of create_logs                                               *)
(***************************************************************************)
\* the lists returned by the first k calls of the batch, one after another
RECURSIVE Concatenation(_, _)
Concatenation(fs, k) ==
    IF k = 0 THEN <<>> ELSE Concatenation(fs, k - 1) \o fs[k].result

\* C21: whatever the interleaving of the worker threads, of which at most
\* max_threads run at once, the list handed to get_log_stats is the
\* concatenation in submission order of the lists returned by the calls of
\* the batch; a list is changed only by its own call, by appending, and
\* get_log_stats starts only after every call of the batch has returned.
BatchIsConcatenation ==
    [][/\ Cardinality(Running) <= max_threads
       /\ pc' = "collect" => logs' = Concatenation(futures', n')
       /\ pc' = "stats" =>
            /\ logs' = Concatenation(futures', Len(futures'))
            /\ Len(futures') * minutes_increment >= minutes_in_day
            /\ \A k \in 1..Len(futures') : futures'[k].state = "returned"
       /\ \A k \in 1..Len(futures) :
            (Len(futures') >= k /\ futures'[k].result # futures[k].result) =>
               /\ futures[k].state = "running"
               /\ futures'[k].result =
                     Append(futures[k].result,
                            <<futures[k].start_time, Len(futures[k].result) + 1>>)
               /\ \A j \in 1..Len(futures) : j # k => futures'[j] = futures[j]]_vars

\* C21 witness: the three calls of a batch returned one event each and the
\* list of the three events, in submission order, is handed to get_log_stats.
BatchIsConcatenationWitness ==
    /\ pc = "stats" /\ Len(futures) = 3
    /\ \A k \in 1..3 : Len(futures[k].result) = 1
    /\ logs = <<futures[1].result[1], futures[2].result[1], futures[3].result[1]>>

\* the calls of the batch that ended with an exception
Failed == {k \in 1..Len(futures) : futures[k].state = "raised"}

\* C27: a call ends with an exception only at the first page request of a
\* source; from then on the batch writes no file and does not reach
\* get_log_stats, and the collection loop ends create_logs at the failed call
\* with the events of the other partitions still in logs, unwritten.
FirstRequestFailureAbortsBatch ==
    [][/\ \A k \in 1..Len(futures) :
            (Len(futures') >= k /\ futures[k].state # "raised"
                /\ futures'[k].state = "raised") =>
               (futures[k].state = "running" /\ futures[k].first)
       /\ Failed # {} =>
            /\ files' = files /\ day' = day
            /\ pc' \in {"submit", "collect", "raised"}
       /\ (pc = "collect" /\ n + 1 \in Failed) => pc' = "raised"
       /\ pc = "raised" => UNCHANGED vars]_vars

\* C27 witness: the first call returned an event, the second failed, and
\* create_logs ended with the exception without a file.
FirstRequestFailureWitness ==
    /\ pc = "raised" /\ files = <<>>
    /\ Len(futures) = 3 /\ Failed = {2}
    /\ Len(futures[1].result) = 1 /\ logs = futures[1].result
    /\ Len(futures[3].result) = 1

\* C28: the windows submitted for a batch are contiguous and their union is
\* the interval from start to end that names the files of the batch, for
\* the first batch and for every later one.
WindowsMatchFileNames ==
    pc \in {"collect", "stats"} =>
       /\ Len(futures) >= 1
       /\ \A k \in 1..Len(futures) : futures[k].start_time < futures[k].end_time
       /\ \A k \in 2..Len(futures) : futures[k].end_time = futures[k - 1].start_time
       /\ futures[1].end_time = end
       /\ futures[Len(futures)].start_time = start

\* the same for the first batch alone
WindowsMatchFirstFileNames == day = 0 => WindowsMatchFileNames

\* the windows of a batch are contiguous, and so are those of two batches
WindowsContiguous ==
    \A k \in 2..Len(futures) : futures[k].end_time = futures[k - 1].start_time

====
